---- MODULE Spec2Model ----
(***************************************************************************)
(* Model of crates/bevy_asset_preview/src/render/mod.rs: the preview      *)
(* render scheduler.  PrerenderedScenes::get_or_schedule queues scenes,   *)
(* update_queue admits them into the fixed pool of preview layers and     *)
(* drains PreviewRendered events, update_preview_frames_counter counts    *)
(* the ready frames of each preview camera, change_render_layers tags a   *)
(* ready instance with its layer.  One tick runs the three systems once,  *)
(* in any order, and then applies the deferred commands.                  *)
(***************************************************************************)
EXTENDS Integers, Sequences, FiniteSets, TLC

\* Scaled configuration: the source has 8 layers and 8 frames.
PREVIEW_LAYERS_COUNT == 2
PREVIEW_RENDER_FRAMES == 3
BASE_PREVIEW_LAYER == 128

Layers == 0 .. (PREVIEW_LAYERS_COUNT - 1)
\* The scene assets the callers ask previews for (their AssetId).
Scenes == {"A", "B", "C"}
Systems == {"update_queue", "update_preview_frames_counter", "change_render_layers"}

\* Option<T>: None is the empty set, Some(x) the singleton.
None == {}
Some(x) == {x}
Unwrap(o) == CHOOSE x \in o : TRUE

\* Entity::PLACEHOLDER, Handle::<Scene>::default(), Handle::<Image>::default().
PLACEHOLDER == 0
DefaultScene == "default"
DefaultImage == 0

VARIABLES
    prerendered,      \* PrerenderedScenes: rendered, rendering, queue
    scene_state,      \* PreviewSceneState
    scene_spawner,    \* SceneSpawner: instances spawned so far, live, ready
    images,           \* Assets<Image>: number of images added
    entities,         \* number of entity ids reserved by Commands::spawn
    world,            \* live camera and light entities and their components
    commands,         \* deferred commands, applied at the end of the tick
    preview_rendered, \* PreviewRendered events not yet read by update_queue
    ran,              \* the systems that have run in the current tick
    pc,               \* position inside update_queue
    panicked,         \* a system panicked (unwrap of None)
    last_call,        \* history: the last get_or_schedule call and its result
    spawn_count,      \* history: SceneSpawner::spawn calls per scene id
    ready_run,        \* history: consecutive ready observations per layer
    tag_count,        \* history: insert_batch calls per layer in this occupation
    freed,            \* history: layers freed in the current tick
    signal_count,     \* history: PreviewRendered events sent per layer in this occupation
    tick              \* history: ticks completed, counted in the scenario only

vars == <<prerendered, scene_state, scene_spawner, images, entities, world,
          commands, preview_rendered, ran, pc, panicked, last_call,
          spawn_count, ready_run, tag_count, freed, signal_count, tick>>

----------------------------------------------------------------------------
\* available_layers is a bit mask as wide as the number of layers (u8 for 8).

Pow2(n) == 2 ^ n
Bit(x, i) == (x \div Pow2(i)) % 2
SetBit(x, i) == IF Bit(x, i) = 1 THEN x ELSE x + Pow2(i)
ClearBit(x, i) == IF Bit(x, i) = 1 THEN x - Pow2(i) ELSE x
AllOnes == Pow2(PREVIEW_LAYERS_COUNT) - 1
TrailingZeros(x) ==
    IF x = 0 THEN PREVIEW_LAYERS_COUNT
    ELSE CHOOSE i \in Layers : Bit(x, i) = 1 /\ \A j \in 0 .. (i - 1) : Bit(x, j) = 0

\* All orders in which an unordered collection can be iterated.
Orders(S) == {o \in [1 .. Cardinality(S) -> S] : \A i, j \in DOMAIN o : o[i] = o[j] => i = j}

\* HashMap::insert
MapInsert(m, k, v) == [x \in (DOMAIN m) \cup {k} |-> IF x = k THEN v ELSE m[x]]
\* Remove a key from a map.
MapRemove(m, k) == [x \in (DOMAIN m) \ {k} |-> m[x]]

----------------------------------------------------------------------------
\* The loops are recursive operators; the state after one iteration is bound
\* as a value (next) before the loop goes on.
\* The operators below take and return a record st of the program state:
\* prerendered, scene_state, scene_spawner, images, entities, world, commands,
\* events (the PreviewRendered events), panicked, and the history fields
\* spawn_count, ready_run, tag_count and signal_count.

\* PreviewSceneState

DefaultSceneState ==
    [available_layers |-> AllOnes,
     cameras          |-> [l \in Layers |-> PLACEHOLDER],
     lights           |-> [l \in Layers |-> PLACEHOLDER],
     scene_handles    |-> [l \in Layers |-> DefaultScene],
     scene_instances  |-> [l \in Layers |-> None],
     applied_layer    |-> [l \in Layers |-> FALSE],
     render_targets   |-> [l \in Layers |-> DefaultImage]]

is_full(ss) == TrailingZeros(ss.available_layers) = PREVIEW_LAYERS_COUNT

Occupied(ss, l) == Bit(ss.available_layers, l) = 0
OccupiedLayers(ss) == {l \in Layers : Occupied(ss, l)}

Command(op, entity, layer, target) ==
    [op |-> op, entity |-> entity, layer |-> layer, target |-> target]

\* occupy taking the highest free layer (leading in place of trailing zeros).
occupy_highest(st, handle, instance, render_target) ==
    IF is_full(st.scene_state) THEN st
    ELSE
        LET layer  == CHOOSE i \in Layers \ OccupiedLayers(st.scene_state) :
                          \A j \in Layers \ OccupiedLayers(st.scene_state) : j <= i
            light  == st.entities + 1
            camera == st.entities + 2
        IN [st EXCEPT
              !.scene_state =
                  [@ EXCEPT !.available_layers = ClearBit(@, layer),
                            !.lights[layer] = light,
                            !.cameras[layer] = camera,
                            !.render_targets[layer] = render_target,
                            !.scene_handles[layer] = handle,
                            !.scene_instances[layer] = Some(instance)],
              !.commands = @ \o
                  << Command("spawn_light", light, layer, DefaultImage),
                     Command("spawn_camera", camera, layer, render_target) >>,
              !.entities = camera,
              !.ready_run[layer] = 0,
              !.tag_count[layer] = 0,
              !.signal_count[layer] = 0]

occupy(st, handle, instance, render_target) ==
    IF is_full(st.scene_state) THEN st
    ELSE
        LET layer  == TrailingZeros(st.scene_state.available_layers)
            light  == st.entities + 1
            camera == st.entities + 2
        IN [st EXCEPT
              !.scene_state =
                  [@ EXCEPT !.available_layers = ClearBit(@, layer),
                            !.lights[layer] = light,
                            !.cameras[layer] = camera,
                            !.render_targets[layer] = render_target,
                            !.scene_handles[layer] = handle,
                            !.scene_instances[layer] = Some(instance)],
              !.commands = @ \o
                  << Command("spawn_light", light, layer, DefaultImage),
                     Command("spawn_camera", camera, layer, render_target) >>,
              !.entities = camera,
              !.ready_run[layer] = 0,
              !.tag_count[layer] = 0,
              !.signal_count[layer] = 0]

\* free without setting the bit of the layer in available_layers.
free_keeping_layer(st, layer) ==
    [st EXCEPT
       !.scene_state =
           [@ EXCEPT !.applied_layer[layer] = FALSE,
                     !.scene_instances[layer] = None],
       !.commands = @ \o
           << Command("despawn", st.scene_state.lights[layer], layer, DefaultImage),
              Command("despawn", st.scene_state.cameras[layer], layer, DefaultImage) >>,
       !.ready_run[layer] = 0]

\* free without the despawn of the light.
free_leaking_light(st, layer) ==
    [st EXCEPT
       !.scene_state =
           [@ EXCEPT !.available_layers = SetBit(@, layer),
                     !.applied_layer[layer] = FALSE,
                     !.scene_instances[layer] = None],
       !.commands = @ \o
           << Command("despawn", st.scene_state.cameras[layer], layer, DefaultImage) >>,
       !.ready_run[layer] = 0]

free(st, layer) ==
    [st EXCEPT
       !.scene_state =
           [@ EXCEPT !.available_layers = SetBit(@, layer),
                     !.applied_layer[layer] = FALSE,
                     !.scene_instances[layer] = None],
       !.commands = @ \o
           << Command("despawn", st.scene_state.lights[layer], layer, DefaultImage),
              Command("despawn", st.scene_state.cameras[layer], layer, DefaultImage) >>,
       !.ready_run[layer] = 0]

----------------------------------------------------------------------------
\* PrerenderedScenes

DefaultPrerendered == [rendered |-> <<>>, rendering |-> {}, queue |-> {}]

\* get_or_schedule without the test of rendering: every miss enqueues.
get_or_schedule_unmerged(p, handle) ==
    IF handle \in DOMAIN p.rendered
    THEN [prerendered |-> p, ret |-> Some(p.rendered[handle])]
    ELSE [prerendered |-> [p EXCEPT !.queue = @ \cup {handle},
                                    !.rendering = @ \cup {handle}],
          ret |-> None]

\* get_or_schedule that schedules the scene again on a cache hit.
get_or_schedule_rescheduling(p, handle) ==
    IF handle \in DOMAIN p.rendered
    THEN [prerendered |-> [p EXCEPT !.queue = @ \cup {handle},
                                    !.rendering = @ \cup {handle}],
          ret |-> Some(p.rendered[handle])]
    ELSE IF handle \notin p.rendering
    THEN [prerendered |-> [p EXCEPT !.queue = @ \cup {handle},
                                    !.rendering = @ \cup {handle}],
          ret |-> None]
    ELSE [prerendered |-> p, ret |-> None]

\* get_or_schedule without rendering.insert: the scene is queued unmarked.
get_or_schedule_unmarked(p, handle) ==
    IF handle \in DOMAIN p.rendered
    THEN [prerendered |-> p, ret |-> Some(p.rendered[handle])]
    ELSE IF handle \notin p.rendering
    THEN [prerendered |-> [p EXCEPT !.queue = @ \cup {handle}],
          ret |-> None]
    ELSE [prerendered |-> p, ret |-> None]

\* The result: the new PrerenderedScenes and the returned Option<Handle<Image>>.
get_or_schedule(p, handle) ==
    IF handle \in DOMAIN p.rendered
    THEN [prerendered |-> p, ret |-> Some(p.rendered[handle])]
    ELSE IF handle \notin p.rendering
    THEN [prerendered |-> [p EXCEPT !.queue = @ \cup {handle},
                                    !.rendering = @ \cup {handle}],
          ret |-> None]
    ELSE [prerendered |-> p, ret |-> None]

----------------------------------------------------------------------------
\* SceneSpawner (bevy_scene), used through spawn, despawn_instance and
\* instance_is_ready.

DefaultSpawner == [count |-> 0, spawned |-> {}, ready |-> {}]

\* SceneSpawner::spawn returns a fresh InstanceId.
spawn(sp) == [sp EXCEPT !.count = @ + 1, !.spawned = @ \cup {sp.count + 1}]
despawn_instance(sp, instance) ==
    [sp EXCEPT !.spawned = @ \ {instance}, !.ready = @ \ {instance}]
instance_is_ready(sp, instance) == instance \in sp.ready

----------------------------------------------------------------------------
\* update_queue, the while loop: admission.  order is the order in which the
\* queue (a HashSet) yields its elements.

\* admit without queue.remove: the handle stays in the queue.
admit_keeping(st, handle) ==
    LET sp            == spawn(st.scene_spawner)
        instance      == sp.count
        render_target == st.images + 1
        taken == [st EXCEPT !.scene_spawner = sp,
                            !.images = render_target,
                            !.spawn_count[handle] = @ + 1]
    IN occupy(taken, handle, instance, render_target)

admit(st, handle) ==
    LET sp            == spawn(st.scene_spawner)
        instance      == sp.count
        render_target == st.images + 1
        taken == [st EXCEPT !.prerendered.queue = @ \ {handle},
                            !.scene_spawner = sp,
                            !.images = render_target,
                            !.spawn_count[handle] = @ + 1]
    IN occupy(taken, handle, instance, render_target)

\* The while loop without the is_full test: it runs until the queue is empty.
RECURSIVE admission_unbounded(_, _)
admission_unbounded(st, order) ==
    IF order = <<>> THEN st
    ELSE Unwrap({admission_unbounded(next, Tail(order)) : next \in {admit(st, Head(order))}})

\* An if in place of the while: at most one scene is admitted per run.
admission_single(st, order) ==
    IF is_full(st.scene_state) \/ order = <<>> THEN st
    ELSE admit(st, Head(order))

\* The loop with its test at the end: a scene is admitted before is_full
\* is looked at.
RECURSIVE admission_test_last(_, _)
admission_test_last(st, order) ==
    IF order = <<>> THEN st
    ELSE Unwrap({IF is_full(next.scene_state) THEN next
                 ELSE admission_test_last(next, Tail(order)) :
                     next \in {admit(st, Head(order))}})

RECURSIVE admission(_, _)
admission(st, order) ==
    IF is_full(st.scene_state) \/ order = <<>> THEN st
    ELSE Unwrap({admission(next, Tail(order)) : next \in {admit(st, Head(order))}})

\* The loop body without rendering.remove.
finished_still_rendering(st, layer) ==
    LET scene_handle  == st.scene_state.scene_handles[layer]
        render_target == st.scene_state.render_targets[layer]
        cached == [st EXCEPT
                     !.prerendered.rendered = MapInsert(@, scene_handle, render_target)]
    IN IF st.scene_state.scene_instances[layer] = None
       THEN [cached EXCEPT !.panicked = TRUE]
       ELSE
           LET instance == Unwrap(st.scene_state.scene_instances[layer])
           IN free([cached EXCEPT !.scene_spawner = despawn_instance(@, instance)],
                   layer)

\* The loop body without scene_spawner.despawn_instance.
finished_without_despawn(st, layer) ==
    LET scene_handle  == st.scene_state.scene_handles[layer]
        render_target == st.scene_state.render_targets[layer]
        cached == [st EXCEPT
                     !.prerendered.rendering = @ \ {scene_handle},
                     !.prerendered.rendered = MapInsert(@, scene_handle, render_target)]
    IN IF st.scene_state.scene_instances[layer] = None
       THEN [cached EXCEPT !.panicked = TRUE]
       ELSE free(cached, layer)

\* update_queue, the for loop: the body for one PreviewRendered event.
finished(st, layer) ==
    LET scene_handle  == st.scene_state.scene_handles[layer]
        render_target == st.scene_state.render_targets[layer]
        cached == [st EXCEPT
                     !.prerendered.rendering = @ \ {scene_handle},
                     !.prerendered.rendered = MapInsert(@, scene_handle, render_target)]
    IN IF st.scene_state.scene_instances[layer] = None
       THEN [cached EXCEPT !.panicked = TRUE]
       ELSE
           LET instance == Unwrap(st.scene_state.scene_instances[layer])
           IN free([cached EXCEPT !.scene_spawner = despawn_instance(@, instance)],
                   layer)

RECURSIVE drain(_)
drain(st) ==
    IF st.events = <<>> \/ st.panicked THEN st
    ELSE Unwrap({drain(next) :
                   next \in {finished([st EXCEPT !.events = Tail(@)],
                                      Head(st.events).layer)}})

----------------------------------------------------------------------------
\* update_preview_frames_counter.  order is the iteration order of the query.

CounterEntities(w) == {e \in DOMAIN w : w[e].kind = "camera" /\ w[e].frames # None}

\* count_frame without the removal of the PreviewRenderedFrames component.
count_frame_keeping_counter(st, entity) ==
    LET layer == st.world[entity].layer
        ready == /\ st.scene_state.scene_instances[layer] # None
                 /\ instance_is_ready(st.scene_spawner,
                                      Unwrap(st.scene_state.scene_instances[layer]))
        cur   == Unwrap(st.world[entity].frames) + 1
    IN IF ~ready
       THEN [st EXCEPT !.ready_run[layer] = 0]
       ELSE IF cur >= PREVIEW_RENDER_FRAMES
       THEN [st EXCEPT
               !.world[entity].frames = Some(cur),
               !.ready_run[layer] = @ + 1,
               !.events = Append(@, [layer |-> layer]),
               !.signal_count[layer] = @ + 1]
       ELSE [st EXCEPT !.world[entity].frames = Some(cur),
                       !.ready_run[layer] = @ + 1]

\* count_frame without the test of instance_is_ready.
count_frame_unconditional(st, entity) ==
    LET layer == st.world[entity].layer
        cur   == Unwrap(st.world[entity].frames) + 1
    IN IF cur >= PREVIEW_RENDER_FRAMES
       THEN [st EXCEPT
               !.world[entity].frames = Some(cur),
               !.ready_run[layer] = @ + 1,
               !.commands = Append(@, Command("remove_frames", entity, layer,
                                              DefaultImage)),
               !.events = Append(@, [layer |-> layer]),
               !.signal_count[layer] = @ + 1]
       ELSE [st EXCEPT !.world[entity].frames = Some(cur),
                       !.ready_run[layer] = @ + 1]

\* count_frame with > in place of >= in the test of cur_frame.
count_frame_late(st, entity) ==
    LET layer == st.world[entity].layer
        ready == /\ st.scene_state.scene_instances[layer] # None
                 /\ instance_is_ready(st.scene_spawner,
                                      Unwrap(st.scene_state.scene_instances[layer]))
        cur   == Unwrap(st.world[entity].frames) + 1
    IN IF ~ready
       THEN [st EXCEPT !.ready_run[layer] = 0]
       ELSE IF cur > PREVIEW_RENDER_FRAMES
       THEN [st EXCEPT
               !.world[entity].frames = Some(cur),
               !.ready_run[layer] = @ + 1,
               !.commands = Append(@, Command("remove_frames", entity, layer,
                                              DefaultImage)),
               !.events = Append(@, [layer |-> layer]),
               !.signal_count[layer] = @ + 1]
       ELSE [st EXCEPT !.world[entity].frames = Some(cur),
                       !.ready_run[layer] = @ + 1]

count_frame(st, entity) ==
    LET layer == st.world[entity].layer
        ready == /\ st.scene_state.scene_instances[layer] # None
                 /\ instance_is_ready(st.scene_spawner,
                                      Unwrap(st.scene_state.scene_instances[layer]))
        cur   == Unwrap(st.world[entity].frames) + 1
    IN IF ~ready
       THEN [st EXCEPT !.ready_run[layer] = 0]
       ELSE IF cur >= PREVIEW_RENDER_FRAMES
       THEN [st EXCEPT
               !.world[entity].frames = Some(cur),
               !.ready_run[layer] = @ + 1,
               !.commands = Append(@, Command("remove_frames", entity, layer,
                                              DefaultImage)),
               !.events = Append(@, [layer |-> layer]),
               !.signal_count[layer] = @ + 1]
       ELSE [st EXCEPT !.world[entity].frames = Some(cur),
                       !.ready_run[layer] = @ + 1]

RECURSIVE count_frames(_, _)
count_frames(st, order) ==
    IF order = <<>> THEN st
    ELSE Unwrap({count_frames(next, Tail(order)) :
                   next \in {count_frame(st, Head(order))}})

----------------------------------------------------------------------------
\* change_render_layers.  The insert_batch of the RenderLayers is counted in
\* tag_count.

\* change_layer without the test of applied_layer.
change_layer_unguarded(st, layer) ==
    IF /\ st.scene_state.scene_instances[layer] # None
       /\ instance_is_ready(st.scene_spawner,
                            Unwrap(st.scene_state.scene_instances[layer]))
    THEN [st EXCEPT !.scene_state.applied_layer[layer] = TRUE,
                    !.tag_count[layer] = @ + 1]
    ELSE st

\* The loop started at layer 1: layer 0 is never tagged.
change_layer_skipping_zero(st, layer) ==
    IF /\ layer # 0
       /\ st.scene_state.scene_instances[layer] # None
       /\ ~st.scene_state.applied_layer[layer]
       /\ instance_is_ready(st.scene_spawner,
                            Unwrap(st.scene_state.scene_instances[layer]))
    THEN [st EXCEPT !.scene_state.applied_layer[layer] = TRUE,
                    !.tag_count[layer] = @ + 1]
    ELSE st

change_layer(st, layer) ==
    IF /\ st.scene_state.scene_instances[layer] # None
       /\ ~st.scene_state.applied_layer[layer]
       /\ instance_is_ready(st.scene_spawner,
                            Unwrap(st.scene_state.scene_instances[layer]))
    THEN [st EXCEPT !.scene_state.applied_layer[layer] = TRUE,
                    !.tag_count[layer] = @ + 1]
    ELSE st

RECURSIVE change_layers(_, _)
change_layers(st, layer) ==
    IF layer >= PREVIEW_LAYERS_COUNT THEN st
    ELSE Unwrap({change_layers(next, layer + 1) : next \in {change_layer(st, layer)}})

----------------------------------------------------------------------------
\* Deferred commands, applied in order at the end of the schedule.

apply_command(w, c) ==
    IF c.op = "spawn_light"
    THEN MapInsert(w, c.entity, [kind |-> "light", layer |-> c.layer,
                                 render_layer |-> c.layer + BASE_PREVIEW_LAYER,
                                 target |-> c.target, frames |-> None])
    ELSE IF c.op = "spawn_camera"
    THEN MapInsert(w, c.entity, [kind |-> "camera", layer |-> c.layer,
                                 render_layer |-> c.layer + BASE_PREVIEW_LAYER,
                                 target |-> c.target, frames |-> Some(0)])
    ELSE IF c.op = "despawn"
    THEN MapRemove(w, c.entity)
    ELSE IF c.entity \in DOMAIN w
    THEN [w EXCEPT ![c.entity].frames = None]
    ELSE w

RECURSIVE apply_commands(_, _)
apply_commands(w, cs) ==
    IF cs = <<>> THEN w
    ELSE Unwrap({apply_commands(next, Tail(cs)) : next \in {apply_command(w, Head(cs))}})

----------------------------------------------------------------------------
\* State machine

\* No scene is spawned twice by the program, so the guard on the instance
\* count never binds; it keeps the counters finite.
MaxInstances == Cardinality(Scenes) + Cardinality(Scenes)

NoCall == [id |-> DefaultScene, kind |-> "none", ret |-> None]

Init ==
    /\ prerendered = DefaultPrerendered
    /\ scene_state = DefaultSceneState
    /\ scene_spawner = DefaultSpawner
    /\ images = 0
    /\ entities = 0
    /\ world = <<>>
    /\ commands = <<>>
    /\ preview_rendered = <<>>
    /\ ran = {}
    /\ pc = "idle"
    /\ panicked = FALSE
    /\ last_call = NoCall
    /\ spawn_count = [s \in Scenes |-> 0]
    /\ ready_run = [l \in Layers |-> 0]
    /\ tag_count = [l \in Layers |-> 0]
    /\ freed = {}
    /\ signal_count = [l \in Layers |-> 0]
    /\ tick = 0

\* The program state as the record the operators work on, and back.
Cur ==
    [prerendered   |-> prerendered,
     scene_state   |-> scene_state,
     scene_spawner |-> scene_spawner,
     images        |-> images,
     entities      |-> entities,
     world         |-> world,
     commands      |-> commands,
     events        |-> preview_rendered,
     panicked      |-> panicked,
     spawn_count   |-> spawn_count,
     ready_run     |-> ready_run,
     tag_count     |-> tag_count,
     signal_count  |-> signal_count]

Install(st) ==
    /\ prerendered' = st.prerendered
    /\ scene_state' = st.scene_state
    /\ scene_spawner' = st.scene_spawner
    /\ images' = st.images
    /\ entities' = st.entities
    /\ world' = st.world
    /\ commands' = st.commands
    /\ preview_rendered' = st.events
    /\ panicked' = st.panicked
    /\ spawn_count' = st.spawn_count
    /\ ready_run' = st.ready_run
    /\ tag_count' = st.tag_count
    /\ signal_count' = st.signal_count

Running == pc = "idle" /\ ~panicked

\* Some caller asks for the preview of a scene, between two systems.
\* recorded: whether the call and its result are kept in last_call.
Request(handle, recorded) ==
    /\ Running
    /\ LET r == get_or_schedule(prerendered, handle)
       IN /\ prerendered' = r.prerendered
          /\ last_call' =
                 IF recorded
                 THEN [id   |-> handle,
                       kind |-> IF handle \in DOMAIN prerendered.rendered THEN "hit"
                                ELSE IF handle \in prerendered.rendering THEN "merged"
                                ELSE "new",
                       ret  |-> r.ret]
                 ELSE last_call
    /\ UNCHANGED <<scene_state, scene_spawner, images, entities, world, commands,
                   preview_rendered, ran, pc, panicked, spawn_count, ready_run,
                   tag_count, freed, signal_count, tick>>

GetOrSchedule(handle) == Request(handle, TRUE)

GetOrScheduleUnrecorded(handle) == Request(handle, FALSE)

\* update_queue up to the end of its while loop.
UpdateQueueAdmit ==
    /\ Running
    /\ "update_queue" \notin ran
    /\ scene_spawner.count + Cardinality(prerendered.queue) <= MaxInstances
    /\ \E order \in Orders(prerendered.queue) :
         \E st \in {admission(Cur, order)} : Install(st)
    /\ pc' = "drain"
    /\ UNCHANGED <<ran, last_call, freed, tick>>

\* update_queue with the while loop run after the for loop.
UpdateQueueDrainThenAdmit ==
    /\ pc = "drain"
    /\ \E drained \in {drain(Cur)} :
         \E order \in Orders(drained.prerendered.queue) :
             \E st \in {admission(drained, order)} :
                 /\ Install(st)
                 /\ freed' = freed \cup (OccupiedLayers(scene_state)
                                          \ OccupiedLayers(drained.scene_state))
    /\ pc' = "idle"
    /\ ran' = ran \cup {"update_queue"}
    /\ UNCHANGED <<last_call, tick>>

\* update_queue from its for loop to its end.
UpdateQueueDrain ==
    /\ pc = "drain"
    /\ \E st \in {drain(Cur)} :
          /\ Install(st)
          /\ freed' = freed \cup (OccupiedLayers(scene_state) \ OccupiedLayers(st.scene_state))
    /\ pc' = "idle"
    /\ ran' = ran \cup {"update_queue"}
    /\ UNCHANGED <<last_call, tick>>

\* observed: whether the run of consecutive ready observations is recorded.
FramesCounterSystem(observed) ==
    /\ Running
    /\ "update_preview_frames_counter" \notin ran
    /\ \E order \in Orders(CounterEntities(world)) :
         \E st \in {count_frames(Cur, order)} :
             Install(IF observed THEN st ELSE [st EXCEPT !.ready_run = ready_run])
    /\ ran' = ran \cup {"update_preview_frames_counter"}
    /\ UNCHANGED <<pc, last_call, freed, tick>>

UpdatePreviewFramesCounter == FramesCounterSystem(FALSE)

UpdatePreviewFramesCounterObserved == FramesCounterSystem(TRUE)

ChangeRenderLayers ==
    /\ Running
    /\ "change_render_layers" \notin ran
    /\ \E st \in {change_layers(Cur, 0)} : Install(st)
    /\ ran' = ran \cup {"change_render_layers"}
    /\ UNCHANGED <<pc, last_call, freed, tick>>

\* The schedule ends: the deferred commands are applied.
\* counted: whether the tick is counted in tick.
EndOfSchedule(counted) ==
    /\ Running
    /\ ran = Systems
    /\ \E w \in {apply_commands(world, commands)} :
          Install([Cur EXCEPT !.world = w, !.commands = <<>>])
    /\ ran' = {}
    /\ freed' = {}
    /\ tick' = IF counted THEN tick + 1 ELSE tick
    /\ UNCHANGED <<pc, last_call>>

EndTick == EndOfSchedule(FALSE)

EndTickCounted == EndOfSchedule(TRUE)

\* Between two ticks the scene spawner finishes, or loses, an instance.
InstanceReady(instance) ==
    /\ Running
    /\ ran = {}
    /\ instance \in scene_spawner.spawned \ scene_spawner.ready
    /\ scene_spawner' = [scene_spawner EXCEPT !.ready = @ \cup {instance}]
    /\ UNCHANGED <<prerendered, scene_state, images, entities, world, commands,
                   preview_rendered, ran, pc, panicked, last_call, spawn_count,
                   ready_run, tag_count, freed, signal_count, tick>>

InstanceNotReady(instance) ==
    /\ Running
    /\ ran = {}
    /\ instance \in scene_spawner.ready
    /\ scene_spawner' = [scene_spawner EXCEPT !.ready = @ \ {instance}]
    /\ UNCHANGED <<prerendered, scene_state, images, entities, world, commands,
                   preview_rendered, ran, pc, panicked, last_call, spawn_count,
                   ready_run, tag_count, freed, signal_count, tick>>

Next ==
    \/ \E handle \in Scenes : GetOrSchedule(handle)
    \/ UpdateQueueAdmit
    \/ UpdateQueueDrain
    \/ UpdatePreviewFramesCounter
    \/ ChangeRenderLayers
    \/ EndTick
    \/ \E instance \in 1 .. MaxInstances : InstanceReady(instance)
    \/ \E instance \in 1 .. MaxInstances : InstanceNotReady(instance)

Spec == Init /\ [][Next]_vars

\* The same program with the settle detector's observations recorded.
NextObserved ==
    \/ \E handle \in Scenes : GetOrSchedule(handle)
    \/ UpdateQueueAdmit
    \/ UpdateQueueDrain
    \/ UpdatePreviewFramesCounterObserved
    \/ ChangeRenderLayers
    \/ EndTick
    \/ \E instance \in 1 .. MaxInstances : InstanceReady(instance)
    \/ \E instance \in 1 .. MaxInstances : InstanceNotReady(instance)

SpecObserved == Init /\ [][NextObserved]_vars

\* The program with a scene spawner under which an instance, once ready,
\* stays ready; an instance may stay not ready for ever.
NextSteady ==
    \/ \E handle \in Scenes : GetOrSchedule(handle)
    \/ UpdateQueueAdmit
    \/ UpdateQueueDrain
    \/ UpdatePreviewFramesCounter
    \/ ChangeRenderLayers
    \/ EndTick
    \/ \E instance \in 1 .. MaxInstances : InstanceReady(instance)

SpecSteady == Init /\ [][NextSteady]_vars

\* The end-to-end scenario: the scenes A, B and C are requested in that
\* order before the first tick, nothing is requested afterwards, every
\* instance is ready from the tick after its admission, and the ticks are
\* counted, up to ScenarioTicks of them.
ScenarioTicks == 10
ScenarioOrder == <<"A", "B", "C">>
Requested == prerendered.rendering \cup DOMAIN prerendered.rendered

ScenarioRequest ==
    /\ tick = 0
    /\ ran = {}
    /\ scene_spawner.count = 0
    /\ Cardinality(Requested) < Len(ScenarioOrder)
    /\ GetOrSchedule(ScenarioOrder[Cardinality(Requested) + 1])

\* A tick starts when all the requests are made and every instance spawned
\* in the tick before is ready; once its first system has started (ran is
\* not empty, or update_queue is between its two loops) the tick goes on.
ScenarioTicking ==
    /\ Cardinality(Requested) = Len(ScenarioOrder)
    /\ tick < ScenarioTicks
    /\ (ran = {} /\ pc = "idle") => scene_spawner.spawned \subseteq scene_spawner.ready

NextScenario ==
    \/ ScenarioRequest
    \/ ScenarioTicking /\ UpdateQueueAdmit
    \/ ScenarioTicking /\ UpdateQueueDrain
    \/ ScenarioTicking /\ UpdatePreviewFramesCounter
    \/ ScenarioTicking /\ ChangeRenderLayers
    \/ ScenarioTicking /\ EndTickCounted
    \/ \E instance \in 1 .. MaxInstances : InstanceReady(instance)

SpecScenario == Init /\ [][NextScenario]_vars

\* The program with a scene spawner that never loses an instance, every
\* system run in every tick, and every spawned instance ready in the end.
NextLive ==
    \/ \E handle \in Scenes : GetOrScheduleUnrecorded(handle)
    \/ UpdateQueueAdmit
    \/ UpdateQueueDrain
    \/ UpdatePreviewFramesCounter
    \/ ChangeRenderLayers
    \/ EndTick
    \/ \E instance \in 1 .. MaxInstances : InstanceReady(instance)

\* A step of the schedule: one of the systems, or its end.
TickStep ==
    \/ UpdateQueueAdmit
    \/ UpdateQueueDrain
    \/ UpdatePreviewFramesCounter
    \/ ChangeRenderLayers
    \/ EndTick

SomeInstanceReady == \E instance \in 1 .. MaxInstances : InstanceReady(instance)

\* The host keeps running the schedule, and the scene spawner, which has its
\* turn between two ticks only, keeps finishing instances.
Fairness == WF_vars(TickStep) /\ SF_vars(SomeInstanceReady)

LiveSpec == Init /\ [][NextLive]_vars /\ Fairness

----------------------------------------------------------------------------
\* Properties

Rendered == DOMAIN prerendered.rendered
\* The occupied layers bound to a scene id.
LayersOf(id) == {l \in OccupiedLayers(scene_state) : scene_state.scene_handles[l] = id}
QueueEntries(id) == IF id \in prerendered.queue THEN 1 ELSE 0

\* C1: whatever the interleaving of get_or_schedule calls and systems, every
\* scene id is held by at most one render job: the occupied layers bound to
\* it plus its entries in the queue are at most one.
C1_AtMostOneJob ==
    \A id \in Scenes : Cardinality(LayersOf(id)) + QueueEntries(id) <= 1

\* A scene that was requested again while its job was running in a layer.
C1_Witness ==
    \E id \in Scenes :
        /\ last_call.id = id /\ last_call.kind = "merged"
        /\ Cardinality(LayersOf(id)) = 1

\* C2: a scene id requested several times before it is cached is spawned
\* once: never more than one SceneSpawner::spawn for the id, and exactly one
\* by the time the id is in a layer or cached.
C2_SpawnedOnce ==
    \A id \in Scenes :
        /\ spawn_count[id] <= 1
        /\ (id \in Rendered \/ LayersOf(id) # {}) => spawn_count[id] = 1

\* A cached scene whose last request came before it was cached, as a repeat
\* of an earlier request, and that was spawned once.
C2_Witness ==
    \E id \in Rendered :
        /\ last_call.id = id /\ last_call.kind = "merged"
        /\ spawn_count[id] = 1

\* C3: a get_or_schedule call for a cached scene id returns the cached
\* render target and changes nothing else: not the queue, the rendering set,
\* the layers or the spawner.
C3_CacheHit ==
    [][\A id \in Scenes :
          (id \in Rendered /\ GetOrSchedule(id)) =>
              /\ last_call'.ret = Some(prerendered.rendered[id])
              /\ prerendered' = prerendered
              /\ UNCHANGED <<scene_state, scene_spawner, images, entities, world,
                             commands, preview_rendered, spawn_count>>]_vars

\* A cache hit has happened and the value it returned is the cached target.
C3_Witness ==
    /\ last_call.kind = "hit"
    /\ last_call.id \in Rendered
    /\ last_call.ret = Some(prerendered.rendered[last_call.id])

\* C4: the scenes admitted at the same time, that is the occupied layers and
\* equally the scene instances spawned and not yet despawned, never exceed
\* the number of layers.
C4_AtMostKAdmitted ==
    /\ Cardinality(scene_spawner.spawned) <= PREVIEW_LAYERS_COUNT
    /\ Cardinality(scene_spawner.spawned) = Cardinality(OccupiedLayers(scene_state))

\* Every layer is taken and a further scene is waiting in the queue.
C4_Witness ==
    /\ is_full(scene_state)
    /\ prerendered.queue # {}
    /\ Cardinality(scene_spawner.spawned) = PREVIEW_LAYERS_COUNT

\* C5: Cached is final: a cached id stays cached with the same target, and
\* is never again in the queue, in the rendering set or bound to an occupied
\* layer.
C5_CachedIsFinal ==
    [][\A id \in Rendered :
          /\ id \in DOMAIN prerendered'.rendered
          /\ prerendered'.rendered[id] = prerendered.rendered[id]
          /\ id \notin prerendered'.queue
          /\ id \notin prerendered'.rendering
          /\ \A l \in OccupiedLayers(scene_state') : scene_state'.scene_handles[l] # id]_vars

\* A scene is cached, was asked for again, and another scene now occupies a
\* layer.
C5_Witness ==
    \E id \in Rendered :
        /\ last_call.id = id /\ last_call.kind = "hit"
        /\ \E l \in OccupiedLayers(scene_state) : scene_state.scene_handles[l] # id
        /\ id \notin prerendered.rendering

\* C6: a PreviewRendered event is sent for a layer only after the layer's
\* instance was observed ready in PREVIEW_RENDER_FRAMES consecutive runs of
\* update_preview_frames_counter; a shorter run of ready observations, broken
\* by a not-ready one, sends nothing.
C6_ConsecutiveReady ==
    \A i \in DOMAIN preview_rendered :
        ready_run[preview_rendered[i].layer] >= PREVIEW_RENDER_FRAMES

\* C7: when the systems keep running and every spawned instance becomes and
\* stays ready, every requested scene id is cached in the end, also when
\* more scenes are requested than there are layers.
C7_EventuallyCached ==
    \A id \in Scenes : (id \in prerendered.rendering) ~> (id \in Rendered)

\* More scenes than layers were requested and all of them are cached.
C7_Witness ==
    /\ Rendered = Scenes
    /\ Cardinality(Scenes) > PREVIEW_LAYERS_COUNT
    /\ prerendered.rendering = {}

\* C8: within one occupation of a layer the instance is tagged at most once
\* (applied_layer goes from false to true with the first insert_batch of the
\* occupation), and applied_layer goes back to false only in a step that
\* frees the layer.
C8_LayerAppliedOnce ==
    /\ [](\A l \in Layers : tag_count[l] <= 1)
    /\ [][\A l \in Layers :
             /\ (scene_state.applied_layer[l] /\ ~scene_state'.applied_layer[l]) =>
                    (Occupied(scene_state, l) /\ ~Occupied(scene_state', l))
             /\ (~scene_state.applied_layer[l] /\ scene_state'.applied_layer[l]) =>
                    (Occupied(scene_state', l) /\ tag_count'[l] = 1)]_vars

\* change_render_layers has run again in the tick in which the layer's event
\* was sent, with the instance ready and tagged in an earlier tick.
C8_Witness ==
    \E l \in OccupiedLayers(scene_state) :
        /\ scene_state.applied_layer[l]
        /\ tag_count[l] = 1
        /\ "change_render_layers" \in ran
        /\ instance_is_ready(scene_spawner, Unwrap(scene_state.scene_instances[l]))
        /\ \E i \in DOMAIN preview_rendered : preview_rendered[i].layer = l

\* C9: a layer freed by the for loop of update_queue is not occupied again
\* before the tick ends, and when update_queue is about to run every free
\* layer is released in full: no instance, not tagged, its camera and light
\* despawned.
C9_FreedNotReusedInTick ==
    /\ freed \cap OccupiedLayers(scene_state) = {}
    /\ (pc = "idle" /\ "update_queue" \notin ran) =>
           \A l \in Layers \ OccupiedLayers(scene_state) :
               /\ scene_state.scene_instances[l] = None
               /\ ~scene_state.applied_layer[l]
               /\ scene_state.cameras[l] \notin DOMAIN world
               /\ scene_state.lights[l] \notin DOMAIN world

\* A tick ends with a layer freed in it still free, though a scene waits in
\* the queue.
C9_Witness ==
    /\ ran = Systems
    /\ freed # {}
    /\ prerendered.queue # {}

FreeLayers(ss) == Cardinality(Layers \ OccupiedLayers(ss))
Min(a, b) == IF a <= b THEN a ELSE b

\* C10: the while loop of update_queue admits min(free layers, queued
\* scenes) scenes in one run: when it ends the pool is full or the queue is
\* empty, and every admitted scene has left the queue for a layer of its own.
C10_AdmitsUntilFullOrEmpty ==
    [][(pc = "idle" /\ pc' = "drain") =>
          LET n     == Min(FreeLayers(scene_state), Cardinality(prerendered.queue))
              taken == OccupiedLayers(scene_state') \ OccupiedLayers(scene_state)
              gone  == prerendered.queue \ prerendered'.queue
          IN /\ is_full(scene_state') \/ prerendered'.queue = {}
             /\ prerendered'.queue \subseteq prerendered.queue
             /\ Cardinality(gone) = n
             /\ Cardinality(taken) = n
             /\ \A id \in gone :
                    Cardinality({l \in taken : scene_state'.scene_handles[l] = id}) = 1]_vars

\* The while loop has just admitted two scenes and left a third in the queue.
C10_Witness ==
    /\ pc = "drain"
    /\ Cardinality({i \in DOMAIN commands : commands[i].op = "spawn_camera"}) = 2
    /\ prerendered.queue # {}

\* The fields of one layer of the PreviewSceneState.
Slot(ss, l) ==
    [camera |-> ss.cameras[l], light |-> ss.lights[l],
     scene_handle |-> ss.scene_handles[l], scene_instance |-> ss.scene_instances[l],
     applied_layer |-> ss.applied_layer[l], render_target |-> ss.render_targets[l]]
\* The step of update_queue's while loop, and of its for loop.
AdmitStep == pc = "idle" /\ pc' = "drain"
DrainStep == pc = "drain" /\ pc' = "idle"

\* C11: whatever layers are free and occupied, the scenes admitted by one
\* run of the while loop take the lowest free layers, each with its handle,
\* a fresh instance and the spawn commands of a light and a camera for that
\* layer; every other layer keeps its occupancy and its fields; and the
\* light and the camera of a layer have RenderLayers BASE_PREVIEW_LAYER +
\* layer.
C11_LowestFreeLayer ==
    /\ [](\A l \in OccupiedLayers(scene_state) :
            \A e \in {scene_state.cameras[l], scene_state.lights[l]} \cap DOMAIN world :
                /\ world[e].layer = l
                /\ world[e].render_layer = BASE_PREVIEW_LAYER + l
                /\ world[e].kind = IF e = scene_state.cameras[l] THEN "camera" ELSE "light")
    /\ [][AdmitStep =>
            LET free0 == Layers \ OccupiedLayers(scene_state)
                taken == OccupiedLayers(scene_state') \ OccupiedLayers(scene_state)
            IN /\ OccupiedLayers(scene_state) \subseteq OccupiedLayers(scene_state')
               /\ taken = {l \in free0 :
                              Cardinality({j \in free0 : j < l}) < Cardinality(taken)}
               /\ \A l \in Layers \ taken : Slot(scene_state', l) = Slot(scene_state, l)
               /\ \A l \in taken :
                      /\ scene_state'.scene_handles[l] \in prerendered.queue \ prerendered'.queue
                      /\ scene_state'.scene_instances[l] # None
                      /\ Unwrap(scene_state'.scene_instances[l])
                             \in scene_spawner'.spawned \ scene_spawner.spawned
                      /\ \E i \in DOMAIN commands' :
                             commands'[i] = Command("spawn_light", scene_state'.lights[l],
                                                    l, DefaultImage)
                      /\ \E i \in DOMAIN commands' :
                             commands'[i] = Command("spawn_camera", scene_state'.cameras[l],
                                                    l, scene_state'.render_targets[l])]_vars

\* The while loop has just put a scene into a layer below a layer that has
\* been occupied since an earlier tick.
C11_Witness ==
    /\ pc = "drain"
    /\ \E l, h \in OccupiedLayers(scene_state) :
           /\ l < h
           /\ scene_state.cameras[h] \in DOMAIN world
           /\ scene_state.cameras[l] \notin DOMAIN world
           /\ \E i \in DOMAIN commands :
                  commands[i] = Command("spawn_camera", scene_state.cameras[l], l,
                                        scene_state.render_targets[l])

\* The PreviewRendered events waiting for a layer.
Signals(l) == {i \in DOMAIN preview_rendered : preview_rendered[i].layer = l}

\* C12: in one occupation of a layer update_preview_frames_counter sends
\* at most one PreviewRendered event: no layer has more events waiting than
\* were sent in its occupation, and from the end of the tick of the event
\* the camera has no PreviewRenderedFrames, however long the instance stays
\* ready.
C12_OneSignalPerOccupation ==
    \A l \in Layers :
        /\ signal_count[l] <= 1
        /\ Cardinality(Signals(l)) <= signal_count[l]
        /\ (ran = {} /\ Occupied(scene_state, l) /\ signal_count[l] = 1
               /\ scene_state.cameras[l] \in DOMAIN world) =>
                  world[scene_state.cameras[l]].frames = None

\* update_preview_frames_counter has run in a tick after the one of the
\* event, with the layer still occupied and its instance still ready.
C12_Witness ==
    \E l \in OccupiedLayers(scene_state) :
        /\ signal_count[l] = 1
        /\ "update_preview_frames_counter" \in ran
        /\ scene_state.cameras[l] \in DOMAIN world
        /\ world[scene_state.cameras[l]].frames = None
        /\ instance_is_ready(scene_spawner, Unwrap(scene_state.scene_instances[l]))

\* The layers named by the PreviewRendered events waiting to be read.
SignalledLayers == {preview_rendered[i].layer : i \in DOMAIN preview_rendered}

\* C13: the for loop of update_queue, for each event it reads, takes the
\* scene of the event's layer out of rendering, caches it with the render
\* target given to the layer's camera at admission, despawns the layer's
\* instance and frees the layer, in the same step; the cache entries of the
\* other scenes, the queue and the other layers stay as they were.
C13_DrainCachesAndFrees ==
    [][DrainStep =>
          LET done == {scene_state.scene_handles[l] : l \in SignalledLayers}
          IN /\ ~panicked'
             /\ \A l \in SignalledLayers :
                    LET id == scene_state.scene_handles[l]
                    IN /\ Occupied(scene_state, l)
                       /\ id \in prerendered.rendering
                       /\ id \notin prerendered'.rendering
                       /\ id \in DOMAIN prerendered'.rendered
                       /\ prerendered'.rendered[id] = world[scene_state.cameras[l]].target
                       /\ scene_state.scene_instances[l] # None
                       /\ Unwrap(scene_state.scene_instances[l]) \in scene_spawner.spawned
                       /\ Unwrap(scene_state.scene_instances[l]) \notin scene_spawner'.spawned
                       /\ ~Occupied(scene_state', l)
             /\ DOMAIN prerendered'.rendered = DOMAIN prerendered.rendered \cup done
             /\ \A id \in DOMAIN prerendered.rendered :
                    prerendered'.rendered[id] = prerendered.rendered[id]
             /\ prerendered'.rendering = prerendered.rendering \ done
             /\ prerendered'.queue = prerendered.queue
             /\ \A l \in Layers \ SignalledLayers :
                    /\ Slot(scene_state', l) = Slot(scene_state, l)
                    /\ Occupied(scene_state', l) = Occupied(scene_state, l)
                    /\ scene_state.scene_instances[l] # None =>
                           Unwrap(scene_state.scene_instances[l]) \in scene_spawner'.spawned]_vars

\* The for loop has just cached the scene of one layer and freed the layer,
\* while another layer stays occupied by a scene that is still rendering.
C13_Witness ==
    /\ pc = "idle"
    /\ "update_queue" \in ran
    /\ \E l \in freed, h \in OccupiedLayers(scene_state) :
           /\ scene_state.scene_handles[l] \in Rendered
           /\ prerendered.rendered[scene_state.scene_handles[l]] = scene_state.render_targets[l]
           /\ scene_state.scene_handles[h] \in prerendered.rendering

\* C14: every layer is either free with all its fields empty (no scene
\* handle, no instance, no render target, applied_layer false and, once the
\* tick's commands are applied, no PreviewRenderedFrames counter) or
\* occupied with scene handle, instance and render target all present.
C14_FreeOrOccupied ==
    \A l \in Layers :
        IF Occupied(scene_state, l)
        THEN /\ scene_state.scene_handles[l] # DefaultScene
             /\ scene_state.scene_instances[l] # None
             /\ scene_state.render_targets[l] # DefaultImage
        ELSE /\ scene_state.scene_handles[l] = DefaultScene
             /\ scene_state.scene_instances[l] = None
             /\ scene_state.render_targets[l] = DefaultImage
             /\ ~scene_state.applied_layer[l]
             /\ ran = {} => \A e \in CounterEntities(world) : world[e].layer # l

\* C15: occupy is never called on a full pool and free never on a free
\* layer: every instance spawned by the while loop gets a layer of its own
\* (as many new instances and images as newly occupied layers, two spawn
\* commands each), the events read by one run of the for loop name distinct
\* layers, each occupied, so each occupation is freed once, and no system
\* panics.
C15_NoMisuseOfThePool ==
    /\ [](~panicked)
    /\ [][AdmitStep =>
             LET taken == OccupiedLayers(scene_state') \ OccupiedLayers(scene_state)
                 new   == scene_spawner'.spawned \ scene_spawner.spawned
             IN /\ scene_spawner'.count - scene_spawner.count = Cardinality(taken)
                /\ Cardinality(new) = Cardinality(taken)
                /\ images' - images = Cardinality(taken)
                /\ Len(commands') - Len(commands) = 2 * Cardinality(taken)
                /\ new = {Unwrap(scene_state'.scene_instances[l]) : l \in taken}]_vars
    /\ [][DrainStep =>
             /\ Cardinality(SignalledLayers) = Len(preview_rendered)
             /\ SignalledLayers \subseteq OccupiedLayers(scene_state)
             /\ OccupiedLayers(scene_state) \ OccupiedLayers(scene_state') = SignalledLayers
             /\ Len(commands') - Len(commands) = 2 * Len(preview_rendered)]_vars

\* The while loop has run on a full pool with a scene waiting and admitted
\* nothing (every camera dates from an earlier tick), and an event is about
\* to free a layer.
C15_Witness ==
    /\ pc = "drain"
    /\ is_full(scene_state)
    /\ prerendered.queue # {}
    /\ \A l \in Layers : scene_state.cameras[l] \in DOMAIN world
    /\ preview_rendered # <<>>

\* The occupied layers whose instance has not been reported ready (under
\* SpecSteady: has never been).
NotReadyLayers(ss, sp) ==
    {l \in OccupiedLayers(ss) : ~instance_is_ready(sp, Unwrap(ss.scene_instances[l]))}

\* C16: as long as the instance of an admitted scene has never been
\* reported ready, the scene stays in rendering and out of the cache, its
\* camera's cur_frame stays 0, no PreviewRendered event is sent for its
\* layer, the layer is not tagged and not freed, get_or_schedule returns
\* None for it and changes nothing, and no system panics.
C16_NeverReadyStaysInFlight ==
    /\ [](/\ ~panicked
          /\ \A l \in NotReadyLayers(scene_state, scene_spawner) :
                 /\ scene_state.scene_handles[l] \in prerendered.rendering
                 /\ scene_state.scene_handles[l] \notin Rendered
                 /\ scene_state.scene_handles[l] \notin prerendered.queue
                 /\ scene_state.cameras[l] \in DOMAIN world =>
                        world[scene_state.cameras[l]].frames = Some(0)
                 /\ Signals(l) = {}
                 /\ signal_count[l] = 0
                 /\ ~scene_state.applied_layer[l])
    /\ [][\A l \in NotReadyLayers(scene_state, scene_spawner) :
             /\ l \in NotReadyLayers(scene_state', scene_spawner') =>
                    Slot(scene_state', l) = Slot(scene_state, l)
             /\ Occupied(scene_state', l)
             /\ scene_state'.scene_instances[l] = scene_state.scene_instances[l]
             /\ GetOrSchedule(scene_state.scene_handles[l]) =>
                    (last_call'.ret = None /\ prerendered' = prerendered)]_vars

\* A scene whose instance has not become ready is still in its layer with
\* cur_frame 0 after another scene, admitted with it or later, was cached,
\* and the last request for it returned None.
C16_Witness ==
    \E l \in NotReadyLayers(scene_state, scene_spawner) :
        /\ scene_state.cameras[l] \in DOMAIN world
        /\ world[scene_state.cameras[l]].frames = Some(0)
        /\ Rendered # {}
        /\ last_call = [id |-> scene_state.scene_handles[l], kind |-> "merged", ret |-> None]

\* The cache sizes the scenario is said to show after the ticks 1, 2, ...
ExpectedSizes == <<0, 0, 0, 0, 2, 2, 2, 3>>
ExpectedAfter(t) ==
    IF t < 1 THEN 0
    ELSE IF t > Len(ExpectedSizes) THEN ExpectedSizes[Len(ExpectedSizes)]
    ELSE ExpectedSizes[t]

\* C17 as claimed, with 2 layers and 3 frames: the number of cached scenes
\* after the ticks 1..8 is 0,0,0,0,2,2,2,3 with the tick numbers shifted by
\* at most one; the third scene is admitted in the tick that drains the
\* events of the first two, so after that tick it is in a layer; and all
\* three scenes are cached after tick 9 at the latest.
C17_ScenarioAsClaimed ==
    (PREVIEW_LAYERS_COUNT = 2 /\ PREVIEW_RENDER_FRAMES = 3 /\ ran = {} /\ tick >= 1) =>
        /\ Cardinality(Rendered) \in {ExpectedAfter(tick - 1), ExpectedAfter(tick),
                                      ExpectedAfter(tick + 1)}
        /\ Cardinality(Rendered) = 2 => prerendered.queue = {}
        /\ tick >= 9 => Rendered = Scenes

\* The scenes admitted by the first run of update_queue.
FirstRound == Min(PREVIEW_LAYERS_COUNT, Len(ScenarioOrder))

\* C17 as amended: with K layers and F frames per preview (K = 2, F = 3 in
\* the scenario) no scene is cached after the ticks 1..F; the min(K, 3)
\* scenes of the first admission are cached after tick F+1 or F+2; a scene
\* left in the queue is admitted in the tick after the one that drained
\* them, never in the same tick; with K < 3 the cache holds no third scene
\* before tick 2F+2 and all three scenes after tick 2F+4, with K >= 3 all
\* three after tick F+2; the cache never shrinks.
C17_ScenarioCacheSizes ==
    /\ [](ran = {} =>
            /\ tick <= PREVIEW_RENDER_FRAMES => Cardinality(Rendered) = 0
            /\ tick = PREVIEW_RENDER_FRAMES + 1 => Cardinality(Rendered) \in {0, FirstRound}
            /\ tick >= PREVIEW_RENDER_FRAMES + 2 => Cardinality(Rendered) >= FirstRound
            /\ tick < 2 * PREVIEW_RENDER_FRAMES + 2 => Cardinality(Rendered) <= FirstRound
            /\ tick >= 2 * PREVIEW_RENDER_FRAMES + 4 => Rendered = Scenes
            /\ (FirstRound = Len(ScenarioOrder) /\ tick >= PREVIEW_RENDER_FRAMES + 2) =>
                   Rendered = Scenes)
    /\ [](freed # {} => prerendered.queue = prerendered.rendering)
    /\ [][Cardinality(DOMAIN prerendered'.rendered) >= Cardinality(Rendered)]_vars

\* The scenario has run to its last tick and the three scenes are cached,
\* each spawned once.
C17_Witness ==
    /\ tick = ScenarioTicks
    /\ ran = {}
    /\ Rendered = {ScenarioOrder[i] : i \in DOMAIN ScenarioOrder}
    /\ \A id \in Rendered : spawn_count[id] = 1
    /\ OccupiedLayers(scene_state) = {}

\* C18: the bookkeeping of PrerenderedScenes and PreviewSceneState agrees:
\* rendered and rendering are disjoint; every queued id is in rendering;
\* every id in rendering is either queued or bound to exactly one occupied
\* layer, never both; the id of every occupied layer is in rendering.  So a
\* scene id is in exactly one of Unknown, Queued, InFlight and Cached.
C18_Bookkeeping ==
    /\ Rendered \cap prerendered.rendering = {}
    /\ prerendered.queue \subseteq prerendered.rendering
    /\ \A id \in prerendered.rendering :
           \/ id \in prerendered.queue /\ LayersOf(id) = {}
           \/ id \notin prerendered.queue /\ Cardinality(LayersOf(id)) = 1
    /\ \A l \in OccupiedLayers(scene_state) :
           scene_state.scene_handles[l] \in prerendered.rendering
    /\ \A id \in Scenes \ Requested : LayersOf(id) = {}

\* At a tick boundary one scene is cached, one is in a layer, one is queued.
C18_Witness ==
    /\ ran = {}
    /\ Rendered # {}
    /\ prerendered.queue # {}
    /\ \E l \in OccupiedLayers(scene_state) :
           scene_state.scene_handles[l] \notin prerendered.queue

\* C19: when the for loop of update_queue reads the event of a layer and
\* caches the scene, applied_layer of the layer is true and the instance was
\* tagged with the layer's RenderLayers in this occupation: no scene is
\* cached from a layer whose instance was not tagged.
C19_TaggedBeforeCached ==
    [][DrainStep =>
          \A l \in SignalledLayers :
              /\ scene_state.applied_layer[l]
              /\ tag_count[l] = 1
              /\ scene_state.scene_handles[l] \in DOMAIN prerendered'.rendered]_vars

\* An event is read in the tick in which it was sent: the counter has run
\* before update_queue, change_render_layers has not run yet, and the
\* layer of the scene just cached had been tagged in an earlier tick.
C19_Witness ==
    /\ pc = "idle"
    /\ ran = {"update_preview_frames_counter", "update_queue"}
    /\ \E l \in freed :
           /\ tag_count[l] = 1
           /\ signal_count[l] = 1
           /\ scene_state.scene_handles[l] \in Rendered
           /\ \E i \in DOMAIN commands :
                  commands[i] = Command("remove_frames", scene_state.cameras[l], l, DefaultImage)

\* The live entities of one kind.
Live(kind) == {e \in DOMAIN world : world[e].kind = kind}

\* C20: at every tick boundary, with the commands of the tick applied, the
\* live cameras, the live lights and the live scene instances are those of
\* the occupied layers, one of each per occupied layer; so when every
\* requested scene is cached no camera, light or instance is left.
C20_NoLeak ==
    (ran = {} /\ pc = "idle") =>
        /\ commands = <<>>
        /\ Live("camera") = {scene_state.cameras[l] : l \in OccupiedLayers(scene_state)}
        /\ Live("light") = {scene_state.lights[l] : l \in OccupiedLayers(scene_state)}
        /\ scene_spawner.spawned =
               {Unwrap(scene_state.scene_instances[l]) : l \in OccupiedLayers(scene_state)}
        /\ Cardinality(Live("camera")) = Cardinality(OccupiedLayers(scene_state))
        /\ Cardinality(Live("light")) = Cardinality(OccupiedLayers(scene_state))
        /\ Cardinality(scene_spawner.spawned) = Cardinality(OccupiedLayers(scene_state))
        /\ prerendered.rendering = {} =>
               (world = <<>> /\ scene_spawner.spawned = {})

\* Every scene was requested and is cached, a camera and a light were
\* spawned for each, and none of them nor any instance is left.
C20_Witness ==
    /\ ran = {}
    /\ Rendered = Scenes
    /\ entities = 2 * Cardinality(Scenes)
    /\ scene_spawner.count = Cardinality(Scenes)
    /\ world = <<>>
    /\ scene_spawner.spawned = {}

====
